---- MODULE Spec2Model ----
(***************************************************************************)
(* Path commands of src/app/scripts/svgcommands.ts: DrawCommand and its    *)
(* six variants, SubPathCommand (reverse, shiftBack, shiftForward) and     *)
(* PathCommand (isMorphableWith, interpolate).                             *)
(*                                                                         *)
(* A Point is the pair <<x, y>>; an absent point (the `undefined` start of *)
(* the first Move of a path) is Undef.  A command is a record of its       *)
(* svgChar (one per class, so it also stands for `constructor`), its       *)
(* points_ array and, for an EllipticalArcCommand, its args array.         *)
(* Sequences are 1-based: args[k] of the source is args[k+1] here, so the  *)
(* large-arc and sweep flags (source indices 5 and 6) are args[6], args[7].*)
(***************************************************************************)
EXTENDS Integers, Sequences, FiniteSets, TLC

VARIABLES
  sub, pre1, pre2, op1, op2, origLen, \* a SubPathCommand and its last two calls
  cmd, cStart, cEnd, cFrac, cRet, cOp, \* a DrawCommand and its last call
  path, pThis, pStart, pEnd, pFrac, pRet \* a PathCommand and its interpolate call

subVars == <<sub, pre1, pre2, op1, op2, origLen>>
cmdVars == <<cmd, cStart, cEnd, cFrac, cRet, cOp>>
pathVars == <<path, pThis, pStart, pEnd, pFrac, pRet>>
vars == <<sub, pre1, pre2, op1, op2, origLen, cmd, cStart, cEnd, cFrac, cRet, cOp,
          path, pThis, pStart, pEnd, pFrac, pRet>>

(***************************************************************************)
(* Bounds.                                                                 *)
(***************************************************************************)
MaxCmds == 4     \* commands in a generated subpath, the Move included
MaxSubs == 2     \* subpaths in a generated path
MaxCoord == 8    \* transform is applied only while coordinates stay within

(***************************************************************************)
(* Points and commands.                                                    *)
(***************************************************************************)
Undef == <<>>

Point(x, y) == <<x, y>>

Defined(p) == p # Undef

NoArgs == <<>>

DrawCommand(svgChar, points) ==
  [svgChar |-> svgChar, points |-> points, args |-> NoArgs]

MoveCommand(start, end) == DrawCommand("M", <<start, end>>)

LineCommand(start, end) == DrawCommand("L", <<start, end>>)

QuadraticCurveCommand(start, cp, end) == DrawCommand("Q", <<start, cp, end>>)

BezierCurveCommand(start, cp1, cp2, end) ==
  DrawCommand("C", <<start, cp1, cp2, end>>)

ClosePathCommand(start, end) == DrawCommand("Z", <<start, end>>)

\* The points_ array is built once, from the constructor's arguments.
EllipticalArcCommand(args) ==
  [svgChar |-> "A",
   points |-> <<Point(args[1], args[2]), Point(args[8], args[9])>>,
   args |-> args]

Cmd_start(c) == c.points[1]

Cmd_end(c) == c.points[Len(c.points)]

SeqReverse(s) == [i \in 1..Len(s) |-> s[Len(s) + 1 - i]]

\* Array.prototype.reverse on points_, unless the start point is absent.
DrawCommand_reverse(c) ==
  IF Defined(Cmd_start(c)) THEN [c EXCEPT !.points = SeqReverse(@)] ELSE c

\* Swaps the end points held in args and flips the sweep flag; points_ is
\* not touched.
EllipticalArcCommand_reverse(c) ==
  [c EXCEPT !.args = <<@[8], @[9], @[3], @[4], @[5], @[6],
                       IF @[7] = 0 THEN 1 ELSE 0, @[1], @[2]>>]

\* Virtual dispatch of reverse().
Cmd_reverse(c) ==
  IF c.svgChar = "A" THEN EllipticalArcCommand_reverse(c)
  ELSE DrawCommand_reverse(c)

(***************************************************************************)
(* SubPathCommand: commands_ is a sequence of commands.                    *)
(***************************************************************************)
SubPath_start(cmds) == Cmd_end(cmds[1])

SubPath_end(cmds) == Cmd_end(cmds[Len(cmds)])

isClosed(cmds) == SubPath_start(cmds) = SubPath_end(cmds)

\* A reverse() that leaves a reversed ClosePath second and promotes nothing.
SubPath_reverse_NoDemote(cmds) ==
  IF Len(cmds) = 1 THEN <<Cmd_reverse(cmds[1])>>
  ELSE <<MoveCommand(Cmd_start(cmds[1]), Cmd_end(cmds[Len(cmds)]))>>
         \o [i \in 1..(Len(cmds) - 1) |-> Cmd_reverse(cmds[Len(cmds) + 1 - i])]

SubPath_reverse(cmds) ==
  IF Len(cmds) = 1 THEN <<Cmd_reverse(cmds[1])>>
  ELSE
    LET n == Len(cmds)
        newCmds == <<MoveCommand(Cmd_start(cmds[1]), Cmd_end(cmds[n]))>>
                     \o [i \in 1..(n - 1) |-> Cmd_reverse(cmds[n + 1 - i])]
        secondCmd == newCmds[2]
    IN IF secondCmd.svgChar = "Z"
       THEN LET demoted == [newCmds EXCEPT
                              ![2] = LineCommand(Cmd_start(secondCmd),
                                                 Cmd_end(secondCmd))]
                lastCmd == demoted[n]
            IN [demoted EXCEPT
                  ![n] = ClosePathCommand(Cmd_start(lastCmd), Cmd_end(lastCmd))]
       ELSE newCmds

\* The body of shiftBack() after its early return.
ShiftBackBody(cmds) ==
    LET n == Len(cmds)
        moveStartPoint == Cmd_start(cmds[1])
        rot == <<cmds[n]>> \o SubSeq(cmds, 1, n - 1)   \* unshift(pop())
        placed ==
          IF rot[1].svgChar = "Z"
          THEN LET lastCmd == rot[n]
                   closed == [rot EXCEPT
                                ![n] = ClosePathCommand(Cmd_start(lastCmd),
                                                        Cmd_end(lastCmd))]
               IN [closed EXCEPT
                     ![2] = LineCommand(Cmd_start(rot[1]), Cmd_end(rot[1]))]
          ELSE [rot EXCEPT ![2] = rot[1]]
    IN [placed EXCEPT ![1] = MoveCommand(moveStartPoint, Cmd_start(placed[2]))]

\* A shiftBack() whose early return forgets the isClosed() test.
SubPath_shiftBack_NoClosedTest(cmds) ==
  IF Len(cmds) = 1 THEN cmds ELSE ShiftBackBody(cmds)

SubPath_shiftBack(cmds) ==
  IF Len(cmds) = 1 \/ ~isClosed(cmds) THEN cmds ELSE ShiftBackBody(cmds)

RECURSIVE ShiftBackTimes(_, _)
ShiftBackTimes(cmds, k) ==
  IF k <= 0 THEN cmds ELSE ShiftBackTimes(SubPath_shiftBack(cmds), k - 1)

\* The loop bound this.commands.length - 2 is read again on every pass, and
\* shiftBack keeps the length.
SubPath_shiftForward(cmds) ==
  IF Len(cmds) = 1 \/ ~isClosed(cmds) THEN cmds
  ELSE ShiftBackTimes(cmds, Len(cmds) - 2)

(***************************************************************************)
(* The subpaths a parser hands over: a Move, then commands each starting   *)
(* where the previous one ends; a ClosePath returns to the Move's end and  *)
(* is the last command.                                                    *)
(***************************************************************************)
Anchors == {Point(0, 0), Point(10, 0), Point(10, 10)}

MoveStarts == {Undef, Point(10, 10)}

ArcOver(p, q, sweep) ==
  EllipticalArcCommand(<<p[1], p[2], 5, 5, 0, 0, sweep, q[1], q[2]>>)

NextCommands(cmds) ==
  LET from == Cmd_end(cmds[Len(cmds)])
  IN {ClosePathCommand(from, SubPath_start(cmds))}
     \cup UNION {{LineCommand(from, q),
                  QuadraticCurveCommand(from, Point(5, 5), q),
                  BezierCurveCommand(from, Point(5, 0), Point(5, 10), q),
                  ArcOver(from, q, 1)} : q \in Anchors \ {from}}

RECURSIVE SubPathsFrom(_, _)
SubPathsFrom(cmds, k) ==
  {cmds} \cup
    (IF k = 0 \/ cmds[Len(cmds)].svgChar = "Z" THEN {}
     ELSE UNION {SubPathsFrom(Append(cmds, c), k - 1) : c \in NextCommands(cmds)})

SubPaths ==
  UNION {SubPathsFrom(<<MoveCommand(s, Point(0, 0))>>, MaxCmds - 1) : s \in MoveStarts}

NoSub == <<>>

SubInit ==
  /\ sub \in SubPaths
  /\ pre1 = NoSub /\ pre2 = NoSub
  /\ op1 = "none" /\ op2 = "none"
  /\ origLen = Len(sub)

SubStep(name, result) ==
  /\ sub' = result
  /\ origLen' = origLen
  /\ pre1' = sub /\ pre2' = pre1
  /\ op1' = name /\ op2' = op1

Reverse == SubStep("reverse", SubPath_reverse(sub))

ShiftBack == SubStep("shiftBack", SubPath_shiftBack(sub))

ShiftForward == SubStep("shiftForward", SubPath_shiftForward(sub))

CmdIdle ==
  /\ cmd = NoSub /\ cStart = NoSub /\ cEnd = NoSub
  /\ cFrac = 0 /\ cRet = "none" /\ cOp = "none"

PathIdle ==
  /\ path = NoSub /\ pThis = NoSub /\ pStart = NoSub /\ pEnd = NoSub
  /\ pFrac = 0 /\ pRet = "none"

SubIdle ==
  /\ sub = NoSub /\ pre1 = NoSub /\ pre2 = NoSub
  /\ op1 = "none" /\ op2 = "none" /\ origLen = 0

Init == SubInit /\ CmdIdle /\ PathIdle

Next ==
  \/ Reverse /\ UNCHANGED <<cmdVars, pathVars>>
  \/ ShiftBack /\ UNCHANGED <<cmdVars, pathVars>>
  \/ ShiftForward /\ UNCHANGED <<cmdVars, pathVars>>

Spec == Init /\ [][Next]_vars

(***************************************************************************)
(* isMorphableWith, interpolate and transform of a single command.         *)
(* A call's outcome is "true" or "false" (its return value) or "throw"     *)
(* (a TypeError raised by reading an index of an undefined args array).    *)
(* A fraction t of Fractions stands for t/2; the snapshots handed to       *)
(* interpolate have even coordinates, so lerp is exact.                    *)
(***************************************************************************)
Fractions == {0, 1, 2}

lerp(a, b, t) == a + ((b - a) * t) \div 2

DrawCommand_isMorphableWith(this, command) ==
  /\ this.svgChar = command.svgChar
  /\ Len(this.points) = Len(command.points)

EllipticalArcCommand_isMorphableWith(this, command) == TRUE

\* Virtual dispatch of isMorphableWith().
Cmd_isMorphableWith(this, command) ==
  IF this.svgChar = "A" THEN EllipticalArcCommand_isMorphableWith(this, command)
  ELSE DrawCommand_isMorphableWith(this, command)

DrawCommand_interpolate(this, start, end, fraction) ==
  IF ~Cmd_isMorphableWith(this, start) \/ ~Cmd_isMorphableWith(this, end)
  THEN [ret |-> "false", cmd |-> this]
  ELSE [ret |-> "true",
        cmd |-> [this EXCEPT !.points =
                   [i \in 1..Len(start.points) |->
                      IF Defined(start.points[i]) /\ Defined(end.points[i])
                      THEN Point(lerp(start.points[i][1], end.points[i][1], fraction),
                                 lerp(start.points[i][2], end.points[i][2], fraction))
                      ELSE this.points[i]]]]

\* start.args[0] (then end.args[0]) is read before anything is written, so a
\* snapshot without args raises before the arc changes.  points_ is not
\* touched.
EllipticalArcCommand_interpolate(this, start, end, fraction) ==
  IF start.args = NoArgs \/ end.args = NoArgs
  THEN [ret |-> "throw", cmd |-> this]
  ELSE [ret |-> "true",
        cmd |-> [this EXCEPT !.args =
                   [i \in 1..Len(this.args) |->
                      IF i \in {6, 7}
                      THEN (IF fraction = 0 THEN start.args[i] ELSE end.args[i])
                      ELSE lerp(start.args[i], end.args[i], fraction)]]]

\* Virtual dispatch of interpolate().
Cmd_interpolate(this, start, end, fraction) ==
  IF this.svgChar = "A" THEN EllipticalArcCommand_interpolate(this, start, end, fraction)
  ELSE DrawCommand_interpolate(this, start, end, fraction)

\* mathutil and svgutil are not part of the sources at hand.  A transform
\* list is a sequence of uniform scale factors, applied in order; a uniform
\* scale multiplies both radii and the end point of an arc and keeps its
\* rotation and flags.
RECURSIVE ScaleOf(_)
ScaleOf(transforms) ==
  IF transforms = <<>> THEN 1 ELSE Head(transforms) * ScaleOf(Tail(transforms))

MathUtil_transform(p, transforms) ==
  Point(p[1] * ScaleOf(transforms), p[2] * ScaleOf(transforms))

SvgUtil_transformArc(arc, transforms) ==
  [rx |-> arc.rx * ScaleOf(transforms), ry |-> arc.ry * ScaleOf(transforms),
   xAxisRotation |-> arc.xAxisRotation,
   largeArcFlag |-> arc.largeArcFlag, sweepFlag |-> arc.sweepFlag,
   endX |-> arc.endX * ScaleOf(transforms), endY |-> arc.endY * ScaleOf(transforms)]

DrawCommand_transform(this, transforms) ==
  [this EXCEPT !.points =
     [i \in 1..Len(this.points) |->
        IF Defined(this.points[i]) THEN MathUtil_transform(this.points[i], transforms)
        ELSE this.points[i]]]

\* Writes args only; points_ is not touched.
EllipticalArcCommand_transform(this, transforms) ==
  LET start == MathUtil_transform(Point(this.args[1], this.args[2]), transforms)
      arc == SvgUtil_transformArc(
               [rx |-> this.args[3], ry |-> this.args[4],
                xAxisRotation |-> this.args[5],
                largeArcFlag |-> this.args[6], sweepFlag |-> this.args[7],
                endX |-> this.args[8], endY |-> this.args[9]], transforms)
  IN [this EXCEPT !.args = <<start[1], start[2], arc.rx, arc.ry, arc.xAxisRotation,
                             arc.largeArcFlag, arc.sweepFlag, arc.endX, arc.endY>>]

\* Virtual dispatch of transform().
Cmd_transform(this, transforms) ==
  IF this.svgChar = "A" THEN EllipticalArcCommand_transform(this, transforms)
  ELSE DrawCommand_transform(this, transforms)

(***************************************************************************)
(* The commands handed to a single command's operations.                   *)
(***************************************************************************)
CmdsOver(p, q, largeArcFlag, sweepFlag) ==
  {MoveCommand(Undef, q), MoveCommand(p, q), LineCommand(p, q),
   QuadraticCurveCommand(p, Point(2, 2), q),
   BezierCurveCommand(p, Point(2, 0), Point(2, 4), q),
   ClosePathCommand(p, q),
   EllipticalArcCommand(<<p[1], p[2], 2, 4, 0, largeArcFlag, sweepFlag, q[1], q[2]>>)}

\* The `start` snapshots and the `end` snapshots of interpolate.
StartLib == CmdsOver(Point(0, 2), Point(4, 0), 0, 1)

EndLib == CmdsOver(Point(4, 0), Point(0, 2), 1, 0)

CmdLib == StartLib \cup EndLib

Transforms == {<<>>, <<2>>}

Numbers(c) ==
  {c.args[i] : i \in 1..Len(c.args)}
    \cup UNION {{c.points[i][k] : k \in 1..Len(c.points[i])} : i \in 1..Len(c.points)}

CmdInit ==
  /\ cmd \in CmdLib
  /\ cStart = NoSub /\ cEnd = NoSub
  /\ cFrac = 0 /\ cRet = "none" /\ cOp = "none"

CmdIsMorphableWith ==
  \E command \in CmdLib :
    /\ cRet' = IF Cmd_isMorphableWith(cmd, command) THEN "true" ELSE "false"
    /\ cStart' = command /\ cEnd' = NoSub /\ cFrac' = 0
    /\ cOp' = "isMorphableWith"
    /\ UNCHANGED cmd

CmdInterpolate ==
  \E start \in StartLib, end \in EndLib, fraction \in Fractions :
    LET r == Cmd_interpolate(cmd, start, end, fraction)
    IN /\ cmd' = r.cmd /\ cRet' = r.ret
       /\ cStart' = start /\ cEnd' = end /\ cFrac' = fraction
       /\ cOp' = "interpolate"

CmdTransform ==
  \E transforms \in Transforms :
    /\ \A v \in Numbers(cmd) : v * ScaleOf(transforms) <= MaxCoord
    /\ cmd' = Cmd_transform(cmd, transforms)
    /\ cStart' = NoSub /\ cEnd' = NoSub /\ cFrac' = 0
    /\ cRet' = "none" /\ cOp' = "transform"

CmdReverse ==
  /\ cmd' = Cmd_reverse(cmd)
  /\ cStart' = NoSub /\ cEnd' = NoSub /\ cFrac' = 0
  /\ cRet' = "none" /\ cOp' = "reverse"

CmdNext ==
  \/ CmdIsMorphableWith /\ UNCHANGED <<subVars, pathVars>>
  \/ CmdInterpolate /\ UNCHANGED <<subVars, pathVars>>
  \/ CmdTransform /\ UNCHANGED <<subVars, pathVars>>
  \/ CmdReverse /\ UNCHANGED <<subVars, pathVars>>

InitCmd == CmdInit /\ SubIdle /\ PathIdle

SpecCmd == InitCmd /\ [][CmdNext]_vars

(***************************************************************************)
(* Properties of a single command.                                         *)
(***************************************************************************)
\* C2: isMorphableWith returns false for two commands of different variants,
\* whichever is the receiver.
C2_DifferentVariantsNotMorphable ==
  (cOp = "isMorphableWith" /\ cmd.svgChar # cStart.svgChar) => cRet = "false"

PointsFollow(c, snapshot) ==
  \A i \in (1..Len(c.points)) \cap (1..Len(cStart.points)) \cap (1..Len(cEnd.points)) :
    (Defined(cStart.points[i]) /\ Defined(cEnd.points[i]))
      => c.points[i] = snapshot.points[i]

\* C8: for a command morphable with start and end, interpolate at fraction 0
\* leaves every point defined in both snapshots at start's coordinates and
\* at fraction 1 at end's; an arc's seven non-flag arguments likewise, and
\* its two flags are start's at fraction 0 and end's at any later fraction.
C8_InterpolateBoundaries ==
  ( /\ cOp = "interpolate"
    /\ Cmd_isMorphableWith(cmd, cStart) /\ Cmd_isMorphableWith(cmd, cEnd) )
  => /\ cRet = "true"
     /\ cFrac = 0 => PointsFollow(cmd, cStart)
     /\ cFrac = 2 => PointsFollow(cmd, cEnd)
     /\ cmd.svgChar = "A" =>
          /\ cFrac = 0 => cmd.args = cStart.args
          /\ cFrac = 2 => cmd.args = cEnd.args
          /\ cFrac # 0 => cmd.args[6] = cEnd.args[6] /\ cmd.args[7] = cEnd.args[7]

\* C9: the start and end points an EllipticalArcCommand exposes agree with
\* its argument vector after any sequence of interpolate, transform and
\* reverse calls.
C9_ArcPointsAgreeWithArgs ==
  cmd.svgChar = "A" =>
    /\ Cmd_start(cmd) = Point(cmd.args[1], cmd.args[2])
    /\ Cmd_end(cmd) = Point(cmd.args[8], cmd.args[9])

(***************************************************************************)
(* SubPathCommand and PathCommand: isMorphableWith and interpolate.  A     *)
(* path is a sequence of subpaths.  An interpolate that raises leaves the  *)
(* commands before the raising one already written.                        *)
(***************************************************************************)
SubPath_isMorphableWith(this, command) ==
  /\ Len(this) = Len(command)
  /\ \A i \in 1..Len(this) : Cmd_isMorphableWith(this[i], command[i])

\* The forEach over the commands from index i on; acc holds the commands of
\* `this` as written so far.
RECURSIVE InterpolateCommandsFrom(_, _, _, _, _)
InterpolateCommandsFrom(acc, i, start, end, fraction) ==
  IF i > Len(acc) THEN [ret |-> "true", cmds |-> acc]
  ELSE LET r == Cmd_interpolate(acc[i], start[i], end[i], fraction)
       IN IF r.ret = "throw" THEN [ret |-> "throw", cmds |-> acc]
          ELSE InterpolateCommandsFrom([acc EXCEPT ![i] = r.cmd], i + 1,
                                       start, end, fraction)

SubPath_interpolate(this, start, end, fraction) ==
  IF ~SubPath_isMorphableWith(this, start) \/ ~SubPath_isMorphableWith(this, end)
  THEN [ret |-> "false", cmds |-> this]
  ELSE InterpolateCommandsFrom(this, 1, start, end, fraction)

PathCommand_isMorphableWith(this, command) ==
  /\ Len(this) = Len(command)
  /\ \A i \in 1..Len(this) : SubPath_isMorphableWith(this[i], command[i])

\* The forEach over the subpaths from index i on; a subpath's boolean result
\* is dropped, an exception ends the loop.
RECURSIVE InterpolateSubPathsFrom(_, _, _, _, _)
InterpolateSubPathsFrom(acc, i, start, end, fraction) ==
  IF i > Len(acc) THEN [ret |-> "true", subs |-> acc]
  ELSE LET r == SubPath_interpolate(acc[i], start[i], end[i], fraction)
           written == [acc EXCEPT ![i] = r.cmds]
       IN IF r.ret = "throw" THEN [ret |-> "throw", subs |-> written]
          ELSE InterpolateSubPathsFrom(written, i + 1, start, end, fraction)

PathCommand_interpolate(this, start, end, fraction) ==
  IF ~PathCommand_isMorphableWith(this, start)
       \/ ~PathCommand_isMorphableWith(this, end)
  THEN [ret |-> "false", subs |-> this]
  ELSE InterpolateSubPathsFrom(this, 1, start, end, fraction)

(***************************************************************************)
(* The paths handed to PathCommand.interpolate: subpaths of a few shapes,  *)
(* connected, with coordinates set off by v so that `this` (v = 0) and the *)
(* two snapshots (v = 2, v = 4) differ in every point.                     *)
(***************************************************************************)
Shapes ==
  {<<"M", "L">>, <<"M", "L", "L">>, <<"M", "L", "A">>, <<"M", "Q", "Z">>}

Vertex(j, v) == Point(4 * j + v, v)

ShapeCommand(svgChar, j, v) ==
  CASE svgChar = "M" -> MoveCommand(Undef, Vertex(j, v))
    [] svgChar = "L" -> LineCommand(Vertex(j - 1, v), Vertex(j, v))
    [] svgChar = "Q" -> QuadraticCurveCommand(Vertex(j - 1, v), Point(v, v + 2),
                                              Vertex(j, v))
    [] svgChar = "Z" -> ClosePathCommand(Vertex(j - 1, v), Vertex(1, v))
    [] svgChar = "A" -> EllipticalArcCommand(
                          <<4 * (j - 1) + v, v, 2, 4, 0, 0, 1, 4 * j + v, v>>)

SubPathOf(shape, v) == [j \in 1..Len(shape) |-> ShapeCommand(shape[j], j, v)]

PathShapes == UNION {[1..n -> Shapes] : n \in 1..MaxSubs}

PathOf(shapes, v) == [i \in 1..Len(shapes) |-> SubPathOf(shapes[i], v)]

InitPath ==
  /\ \E shapes \in PathShapes : path = PathOf(shapes, 0)
  /\ \E shapes \in PathShapes : pStart = PathOf(shapes, 2)
  /\ \E shapes \in PathShapes : pEnd = PathOf(shapes, 4)
  /\ pFrac \in Fractions
  /\ pThis = path /\ pRet = "none"
  /\ CmdIdle /\ SubIdle

PathInterpolate ==
  /\ pRet = "none"
  /\ LET r == PathCommand_interpolate(path, pStart, pEnd, pFrac)
     IN path' = r.subs /\ pRet' = r.ret
  /\ UNCHANGED <<pThis, pStart, pEnd, pFrac>>

PathNext == PathInterpolate /\ UNCHANGED <<subVars, cmdVars>>

SpecPath == InitPath /\ [][PathNext]_vars

(***************************************************************************)
(* Properties of PathCommand.                                              *)
(***************************************************************************)
\* Two paths have the same structure: as many subpaths, as many commands in
\* each, and at every position the same variant with as many points.
SameStructure(p, q) ==
  /\ Len(p) = Len(q)
  /\ \A i \in 1..Len(p) :
       /\ Len(p[i]) = Len(q[i])
       /\ \A j \in 1..Len(p[i]) :
            /\ p[i][j].svgChar = q[i][j].svgChar
            /\ Len(p[i][j].points) = Len(q[i][j].points)

\* C1: when start or end structurally mismatches `this`,
\* PathCommand.interpolate returns false, raises nothing and leaves every
\* point and arc argument of `this` unchanged.
C1_MismatchFailsCleanly ==
  ( /\ pRet # "none"
    /\ ~SameStructure(pThis, pStart) \/ ~SameStructure(pThis, pEnd) )
  => pRet = "false" /\ path = pThis

(***************************************************************************)
(* Properties of SubPathCommand.                                           *)
(***************************************************************************)
\* A subpath as the claims take it: a Move first, each later command
\* starting where the previous one ends, every arc as constructed.
AsConstructed(c) ==
  c.svgChar = "A" =>
    c.points = <<Point(c.args[1], c.args[2]), Point(c.args[8], c.args[9])>>

WellFormed(cmds) ==
  /\ cmds # NoSub
  /\ cmds[1].svgChar = "M"
  /\ \A i \in 2..Len(cmds) :
       /\ cmds[i].svgChar # "M"
       /\ Cmd_start(cmds[i]) = Cmd_end(cmds[i - 1])
  /\ \A i \in 1..Len(cmds) : AsConstructed(cmds[i])

\* What a command draws: its kind (Line and ClosePath both draw a straight
\* segment), its points and its arc arguments.
Segment(c) ==
  [kind |-> IF c.svgChar \in {"L", "Z"} THEN "straight" ELSE c.svgChar,
   points |-> c.points, args |-> c.args]

Segments(cmds) == [i \in 1..(Len(cmds) - 1) |-> Segment(cmds[i + 1])]

Rotated(s, k) == [i \in 1..Len(s) |-> s[((i - 1 + k) % Len(s)) + 1]]

IsRotationOf(s, t) ==
  /\ Len(s) = Len(t)
  /\ \E k \in 0..(Len(s) - 1) : s = Rotated(t, k)

\* C3: calling reverse() twice on a subpath restores the original command
\* sequence (variants, points in order, arc arguments).
C3_ReverseTwiceRestores ==
  (op1 = "reverse" /\ op2 = "reverse" /\ WellFormed(pre2)) => sub = pre2

\* C4: on a closed subpath with more than one command, shiftBack() then
\* shiftForward(), and shiftForward() then shiftBack(), restore the subpath
\* (start point, and variant and points at every index).  Stated on the
\* subpaths of more than two commands, where shiftForward() does shift.
C4_ShiftRoundTrip ==
  ( /\ \/ op2 = "shiftBack" /\ op1 = "shiftForward"
       \/ op2 = "shiftForward" /\ op1 = "shiftBack"
    /\ WellFormed(pre2) /\ isClosed(pre2) /\ Len(pre2) > 2 )
  => sub = pre2

\* C5: reverse() preserves the subpath's start point and its closedness.
\* Stated on the closed subpaths of more than one command, one of the
\* cases the claim names.
C5_ReverseKeepsStartAndClosedness ==
  (op1 = "reverse" /\ WellFormed(pre1) /\ Len(pre1) > 1 /\ isClosed(pre1))
  => /\ SubPath_start(sub) = SubPath_start(pre1)
     /\ isClosed(sub) = isClosed(pre1)

\* C6: on a closed, connected subpath with more than two commands,
\* shiftBack() leaves the subpath closed and its drawn segments a rotation of
\* the segments before.
C6_ShiftBackKeepsLoop ==
  (op1 = "shiftBack" /\ WellFormed(pre1) /\ isClosed(pre1) /\ Len(pre1) > 2)
  => /\ isClosed(sub)
     /\ IsRotationOf(Segments(sub), Segments(pre1))

Square(s) ==
  <<MoveCommand(s, Point(0, 0)), LineCommand(Point(0, 0), Point(10, 0)),
    LineCommand(Point(10, 0), Point(10, 10)),
    ClosePathCommand(Point(10, 10), Point(0, 0))>>

\* C7 as claimed: reverse() of the scenario subpath yields
\* [Move(_, (0,0)), Line((10,10),(0,0)), Line((10,0),(10,10)),
\*  Close((0,0),(10,0))] and the start is still (0,0).
C7_ScenarioAsClaimed ==
  \A s \in MoveStarts :
    (op1 = "reverse" /\ pre1 = Square(s))
    => /\ sub = <<MoveCommand(s, Point(0, 0)),
                  LineCommand(Point(10, 10), Point(0, 0)),
                  LineCommand(Point(10, 0), Point(10, 10)),
                  ClosePathCommand(Point(0, 0), Point(10, 0))>>
       /\ SubPath_start(sub) = Point(0, 0)

\* C7 amended: reverse() of the scenario subpath yields
\* [Move(_, (0,0)), Line((0,0),(10,10)), Line((10,10),(10,0)),
\*  Close((10,0),(0,0))]: the first Line is the demoted Close, the final
\* Close the promoted last command, each with its points reversed, and the
\* start is still (0,0).
C7_ScenarioReversed ==
  \A s \in MoveStarts :
    (op1 = "reverse" /\ pre1 = Square(s))
    => /\ sub = <<MoveCommand(s, Point(0, 0)),
                  LineCommand(Point(0, 0), Point(10, 10)),
                  LineCommand(Point(10, 10), Point(10, 0)),
                  ClosePathCommand(Point(10, 0), Point(0, 0))>>
       /\ SubPath_start(sub) = Point(0, 0)

C7_Witness == op1 = "reverse" /\ pre1 = Square(Undef) /\ Len(sub) = 4

\* C10: after any sequence of reverse(), shiftBack() and shiftForward() the
\* subpath has its original number of commands and a Move first; shiftBack()
\* and shiftForward() change nothing on a subpath that has a single command
\* or is not closed.
C10_LengthMoveFirstAndNoOps ==
  /\ Len(sub) = origLen
  /\ sub[1].svgChar = "M"
  /\ (op1 \in {"shiftBack", "shiftForward"}
        /\ (Len(pre1) = 1 \/ ~isClosed(pre1)))
     => sub = pre1

C10_Witness ==
  /\ op1 = "shiftBack" /\ op2 = "reverse"
  /\ Len(pre1) > 1 /\ ~isClosed(pre1) /\ sub = pre1 /\ pre2 # pre1

====
